---- MODULE Spec2Model ----
(***************************************************************************)
(* tools/shuffle_tfrecords_beam_for_local.py: a command-line program that  *)
(* shuffles TFRecord files with Apache Beam.  main() optionally            *)
(* pre-partitions the input by a blake2b hash, runs one shuffling pipeline *)
(* per partition (Stage A), one merging pipeline (Stage B, with the        *)
(* optional summary file) and finally removes the Stage A files.           *)
(*                                                                         *)
(* A PCollection is a bag (Beam collections are unordered), a file is a    *)
(* name [kind, idx, shard, of] holding a bag, and every `with              *)
(* beam.Pipeline` block is a pipeline execution that either completes or   *)
(* raises.  How many shards a WriteToTFRecord without num_shards produces  *)
(* and which record lands in which shard are the runner's choice, and     *)
(* nondeterministic here.                                                  *)
(***************************************************************************)
EXTENDS Integers, Sequences, FiniteSets, TLC

\* Bounds of the model.
MaxLen == 2
MaxBuckets == 2
MaxShards == 2

\* The record contents the input is drawn from, in a fixed order.
RecordSeq == <<"a", "b", "h">>
Records == {RecordSeq[x] : x \in 1..Len(RecordSeq)}

-----------------------------------------------------------------------------
\* Bags of records: total functions Records -> Nat.

EmptyBag == [r \in Records |-> 0]

RECURSIVE SumOver(_, _)
SumOver(S, f) ==
  IF S = {} THEN 0
  ELSE LET x == CHOOSE y \in S : TRUE IN f[x] + SumOver(S \ {x}, f)

BagSize(b) == SumOver(Records, b)

BagAdd(b1, b2) == [r \in Records |-> b1[r] + b2[r]]

RECURSIVE BagUnion(_, _)
\* The sum of the bags g[x], x in S.
BagUnion(S, g) ==
  IF S = {} THEN EmptyBag
  ELSE LET x == CHOOSE y \in S : TRUE IN BagAdd(g[x], BagUnion(S \ {x}, g))

InputBags == {b \in [Records -> 0..MaxLen] : BagSize(b) <= MaxLen}

-----------------------------------------------------------------------------
\* partition(): hashlib.blake2b(example, digest_size=4), the digest's bytes
\* summed little-endian, modulo num_buckets.

\* hashlib.blake2b(r, digest_size=4).digest() of the records above.
blake2b(input_bytes) ==
  CASE input_bytes = "a" -> <<202, 35, 76, 85>>
    [] input_bytes = "b" -> <<253, 157, 63, 81>>
    [] input_bytes = "h" -> <<163, 34, 222, 1>>

RECURSIVE Address(_, _)
\* for i, b in enumerate(digest): address += b * (2 ** (i * 8)), from byte i on.
Address(digest, i) ==
  IF i >= Len(digest) THEN 0
  ELSE digest[i + 1] * (2 ^ (i * 8)) + Address(digest, i + 1)

RECURSIVE ByteSum(_, _)
ByteSum(digest, i) ==
  IF i >= Len(digest) THEN 0 ELSE digest[i + 1] + ByteSum(digest, i + 1)

\* The digest's bytes summed without their weights (address += b).
determine_hash_unweighted(input_bytes) == ByteSum(blake2b(input_bytes), 0)

determine_hash(input_bytes) == Address(blake2b(input_bytes), 0)

partition(example, num_buckets) == determine_hash(example) % num_buckets

\* beam.Partition(partition, num_buckets): one PCollection per bucket.
BeamPartition(input_data, num_buckets) ==
  [b \in 0..(num_buckets - 1) |->
     [r \in Records |-> IF partition(r, num_buckets) = b THEN input_data[r] ELSE 0]]

-----------------------------------------------------------------------------
\* shuffle_records(): Map to (sha1(x), x), GroupByKey, FlatMap of the values.

\* hashlib.sha1(r).digest() of the records above, in hex.
sha1(input_bytes) ==
  CASE input_bytes = "a" -> "86f7e437faa5a7fce15d1ddcb9eaeaea377667b8"
    [] input_bytes = "b" -> "e9d71f5ee7c92d6dc9e92ffdad17b8bd49418f98"
    [] input_bytes = "h" -> "27d5482eebd075de44389774fce28c69f45c8a75"

\* 'Randomize': the bag of pairs (sha1(x), x).
Randomize(input_examples) ==
  [p \in {<<sha1(r), r>> : r \in Records} |-> input_examples[p[2]]]

\* A grouping that keeps one value per key (what a dict keyed by digest does).
GroupByKeyOneValue(pairs) ==
  [k \in {p[1] : p \in {q \in DOMAIN pairs : pairs[q] > 0}} |->
     [r \in Records |->
        IF <<k, r>> \in DOMAIN pairs /\ pairs[<<k, r>>] > 0 THEN 1 ELSE 0]]

\* 'Groupby': beam.GroupByKey, each key present with the bag of all its values.
GroupByKey(pairs) ==
  [k \in {p[1] : p \in {q \in DOMAIN pairs : pairs[q] > 0}} |->
     [r \in Records |-> IF <<k, r>> \in DOMAIN pairs THEN pairs[<<k, r>>] ELSE 0]]

\* 'DropKey': beam.FlatMap(lambda x: x[1]).
DropKey(groups) == BagUnion(DOMAIN groups, groups)

shuffle_records(input_examples) == DropKey(GroupByKey(Randomize(input_examples)))

-----------------------------------------------------------------------------
\* Files and filename patterns.  A file name is [kind, idx, shard, of]:
\*   "input"         the files of --input_pattern_list
\*   "partition"     <workdir>/partition<idx 4 digits>-<shard>-of-<of>.tfrecord.gz
\*   "intermediate"  <output_pattern_prefix>_partition<idx>-<shard>-of-<of>.tfrecord.gz
\*   "output"        <output_pattern_prefix>-<shard>-of-<of>.tfrecord.gz
\* A pattern is [kind, idxs, single]: idxs the indices it admits, single TRUE
\* for "-00000-of-00001" and FALSE for "-?????-of-?????".

File(kind, idx, shard, of) == [kind |-> kind, idx |-> idx, shard |-> shard, of |-> of]

Pattern(kind, idxs, single) == [kind |-> kind, idxs |-> idxs, single |-> single]

Matches(pat, f) ==
  /\ f.kind = pat.kind
  /\ f.idx \in pat.idxs
  /\ pat.single => (f.shard = 0 /\ f.of = 1)

\* glob.glob(pattern), and the files a ReadFromTFRecord(pattern) reads.
Glob(files, pat) == {f \in DOMAIN files : Matches(pat, f)}

\* The orders in which glob.glob may list a set of files.
Orderings(S) ==
  {s \in [1..Cardinality(S) -> S] : \A x, y \in DOMAIN s : x # y => s[x] # s[y]}

\* filename.split(","): a name without a comma is one pattern.
Split(filename) == <<filename>>

\* read_from_tfrecords_files(): one ReadFromTFRecord per pattern, flattened.
read_from_tfrecords_files(files, input_filename_pattern_list) ==
  BagUnion(DOMAIN input_filename_pattern_list,
           [x \in DOMAIN input_filename_pattern_list |->
              BagUnion(Glob(files, input_filename_pattern_list[x]), files)])

BagSub(b1, b2) == [r \in Records |-> b1[r] - b2[r]]

\* The bags contained in pcoll.
SubBags(pcoll) ==
  {b \in [Records -> 0..BagSize(pcoll)] : \A r \in Records : b[r] <= pcoll[r]}

RECURSIVE Deals(_, _)
\* The ways the runner may spread pcoll over k shards, listed shard by shard:
\* every record in one shard, every shard of a non-empty collection written by
\* a non-empty bundle.
Deals(pcoll, k) ==
  IF k = 1 THEN {<<pcoll>>}
  ELSE UNION {{<<b>> \o d : d \in Deals(BagSub(pcoll, b), k - 1)} :
                b \in {c \in SubBags(pcoll) :
                         BagSize(c) > 0 /\ BagSize(pcoll) - BagSize(c) >= k - 1}}

\* The shard counts the runner may choose for a write without num_shards: one
\* file per written bundle, a single empty file for an empty collection.
ShardCounts(pcoll) ==
  {k \in 1..MaxShards : k = 1 \/ k <= BagSize(pcoll)}

\* WriteToTFRecord(file_path_prefix, file_name_suffix=".tfrecord.gz"): the sets
\* of shard files it may produce.
WriteToTFRecord(kind, idx, pcoll) ==
  {[f \in {File(kind, idx, s, Len(d)) : s \in 0..(Len(d) - 1)} |-> d[f.shard + 1]] :
     d \in UNION {Deals(pcoll, k) : k \in ShardCounts(pcoll)}}

\* The file system after the files of `new` are written (existing names replaced).
Written(files, new) ==
  [f \in DOMAIN files \cup DOMAIN new |-> IF f \in DOMAIN new THEN new[f] ELSE files[f]]

Removed(files, f) == [g \in DOMAIN files \ {f} |-> files[g]]

-----------------------------------------------------------------------------
\* The summary file's two strings.

\* COMMENT_HEADER.format(input_pattern_list, output_pattern_prefix)
COMMENT_HEADER(input_pattern_list, output_pattern_prefix) ==
  [block |-> "header",
   input_pattern_list |-> input_pattern_list,
   output_pattern_prefix |-> output_pattern_prefix]

\* MakeConfigStringCaller(dataset_name, output_pattern_prefix)(num_examples)
MakeConfigStringCaller(dataset_name, output_pattern_prefix, num_examples) ==
  [block |-> "trailer",
   name |-> dataset_name,
   tfrecord_path |-> <<output_pattern_prefix, "-?????-of-?????.tfrecord.gz">>,
   num_examples |-> num_examples]

\* A count of the distinct records instead of the record occurrences.
CountDistinct(pcoll) == Cardinality({r \in Records : pcoll[r] > 0})

\* 'CountOutputExamples': beam.combiners.Count.Globally()
CountGlobally(pcoll) == BagSize(pcoll)

\* 'FlattenStrs' then 'Concat2': ''.join over the flattened collection of the
\* two strings, in the order the runner hands them to the combiner.
Concat2(comment_str, config_str) ==
  {<<comment_str, config_str>>, <<config_str, comment_str>>}

-----------------------------------------------------------------------------
VARIABLES
  args,             \* known_args of parse_cmdline
  fs,               \* the record files that exist, each with its bag of records
  workdir,          \* whether pre_partition_workdir exists
  manifest,         \* the file output_dataset_config_pbtxt: {} or {its text}
  pc,               \* where main is
  error,            \* the exception main ended with, "" when none
  input_files,      \* main's input_files
  i,                \* the index of main's Stage A loop
  output_patterns,  \* main's output_patterns
  output_examples,  \* Stage B's PCollection, once read
  pending,          \* the writes of the Stage B execution still to finish
  j,                \* the number of output_patterns the cleanup loop has globbed
  partials,         \* the files of the cleanup loop's current glob still to remove
  hist              \* history: the initial files, the executions started, the reads
                    \* (stage, files), the files written and removed, the file
                    \* another process removed, and the shuffle_records calls
                    \* (stage, input, output)

vars == <<args, fs, workdir, manifest, pc, error, input_files, i, output_patterns,
          output_examples, pending, j, partials, hist>>

input_pattern_list == "in"
output_pattern_prefix == "out"
output_dataset_name == "HG001"

InputFile == File("input", 0, 0, 1)
InputPattern == Pattern("input", {0}, FALSE)

\* What an earlier run may have left behind: a partition file in the working
\* directory, and a Stage A file with a shard count this run does not produce.
OldPartitionFile == File("partition", 0, 0, 1)
StaleIntermediateFile == File("intermediate", 0, 0, MaxShards + 1)
OldBag == [r \in Records |-> IF r = "h" THEN 1 ELSE 0]

Args ==
  [pre_partition : BOOLEAN,
   pre_partition_workdir : BOOLEAN,       \* given or None
   num_buckets : 0..MaxBuckets,
   output_dataset_config_pbtxt : BOOLEAN, \* given or None
   output_dataset_name : BOOLEAN]         \* given or None

Init ==
  /\ args \in Args
  /\ workdir \in (IF args.pre_partition_workdir THEN BOOLEAN ELSE {FALSE})
  /\ \E R \in InputBags, stale \in BOOLEAN :
       fs = Written(Written([f \in {InputFile} |-> R],
                            IF workdir THEN [f \in {OldPartitionFile} |-> OldBag]
                            ELSE <<>>),
                    IF stale THEN [f \in {StaleIntermediateFile} |-> OldBag] ELSE <<>>)
  /\ manifest = {}
  /\ pc = "parse"
  /\ error = ""
  /\ input_files = <<>>
  /\ i = 0
  /\ output_patterns = <<>>
  /\ output_examples = EmptyBag
  /\ pending = {}
  /\ j = 0
  /\ partials = {}
  /\ hist = [fs0 |-> fs, workdir0 |-> workdir, ran |-> {}, read |-> <<>>,
             written |-> {}, deleted |-> {}, external |-> {}, shuffled |-> <<>>]

\* The two ValueErrors the program raises itself.
NameError == "ValueError: Need to set output_dataset_name."
WorkdirError == "ValueError: Provide a clean working directory path directory"

\* The AssertionErrors of parse_cmdline.
NoWorkdirError == "AssertionError: Provide working directory for pre-partition"
NoBucketError == "AssertionError: Minimum of one bucket should be provided for pre-partition"

\* What a `with beam.Pipeline` block raises when its execution fails, by block.
PrePartitionFailed == "pipeline failed: pre_partition"
StageAFailed == "pipeline failed: Stage A"
StageBFailed == "pipeline failed: Stage B"

\* What os.remove raises: the file is gone, or may not be removed.
FileNotFoundError == "FileNotFoundError"
PermissionError == "PermissionError"

\* "<output_pattern_prefix>-?????-of-?????.tfrecord.gz", the final output shards.
FinalPattern == Pattern("output", {0}, FALSE)

Raise(e) ==
  /\ pc' = "failed"
  /\ error' = e

Ran(h, what) == [h EXCEPT !.ran = @ \cup {what}]

\* os.path.exists(working_directory) always answering False.
path_exists_never == FALSE

\* os.path.exists(working_directory)
path_exists == workdir

-----------------------------------------------------------------------------
\* parse_cmdline() without its assertions.
parse_cmdline_unchecked ==
  /\ pc = "parse"
  /\ pc' = "prepartition"
  /\ UNCHANGED <<args, fs, workdir, manifest, error, input_files, i, output_patterns,
                 output_examples, pending, j, partials, hist>>

\* parse_cmdline(): the two assertions made when --pre_partition is given.
parse_cmdline ==
  /\ pc = "parse"
  /\ IF args.pre_partition /\ ~args.pre_partition_workdir
       THEN Raise(NoWorkdirError)
     ELSE IF args.pre_partition /\ ~(args.num_buckets > 0)
       THEN Raise(NoBucketError)
     ELSE pc' = "prepartition" /\ error' = error
  /\ UNCHANGED <<args, fs, workdir, manifest, input_files, i, output_patterns,
                 output_examples, pending, j, partials, hist>>

\* The sets of files the 'WritePartition<i>' writes of pre_partition's pipeline
\* may produce, one WriteToTFRecord under "partition%04d" % i per partition.
WritePartitions(partitions) ==
  LET W(b) == WriteToTFRecord("partition", b, partitions[b])
  IN  {[f \in UNION {DOMAIN ws[b] : b \in DOMAIN partitions} |-> ws[f.idx][f]] :
         ws \in {w \in [DOMAIN partitions -> UNION {W(b) : b \in DOMAIN partitions}] :
                   \A b \in DOMAIN partitions : w[b] \in W(b)}}

\* glob.glob(os.path.join(working_directory, "partition????-00000-of-00001.tfrecord.gz"))
PartitionGlob == Pattern("partition", 0..9999, TRUE)

\* main's call of pre_partition() when --pre_partition is given.
pre_partition ==
  /\ pc = "prepartition"
  /\ args.pre_partition
  /\ IF path_exists
       THEN /\ Raise(WorkdirError)
            /\ UNCHANGED <<fs, workdir, input_files, hist>>
       ELSE /\ workdir' = TRUE
            /\ \/ LET input_data == read_from_tfrecords_files(fs, <<InputPattern>>)
                      partitions == BeamPartition(input_data, args.num_buckets)
                  IN  \E new \in WritePartitions(partitions) :
                        /\ fs' = Written(fs, new)
                        /\ \E filenames \in Orderings(Glob(fs', PartitionGlob)) :
                             input_files' = [x \in DOMAIN filenames |->
                                               Pattern("partition", {filenames[x].idx}, TRUE)]
                        /\ hist' = [Ran(hist, "prepartition") EXCEPT
                                      !.read = Append(@, <<"prepartition", Glob(fs, InputPattern)>>),
                                      !.written = @ \cup DOMAIN new]
                        /\ pc' = IF input_files' = <<>> THEN "stageB" ELSE "stageA"
                        /\ error' = error
               \/ /\ Raise(PrePartitionFailed)
                  /\ hist' = Ran(hist, "prepartition")
                  /\ UNCHANGED <<fs, input_files>>
  /\ UNCHANGED <<args, manifest, i, output_patterns, output_examples, pending, j, partials>>

\* main without --pre_partition: input_files = [known_args.input_pattern_list].
no_pre_partition ==
  /\ pc = "prepartition"
  /\ ~args.pre_partition
  /\ input_files' = <<InputPattern>>
  /\ pc' = "stageA"
  /\ UNCHANGED <<args, fs, workdir, manifest, error, i, output_patterns,
                 output_examples, pending, j, partials, hist>>

\* The pattern of pre_partition's glob used for the Stage A files:
\* "<output_pattern_prefix>_partition<n>-00000-of-00001.tfrecord.gz"
OutputPatternSingle(n) == Pattern("intermediate", {n}, TRUE)

\* "<output_pattern_prefix>_partition<n>-?????-of-?????.tfrecord.gz"
OutputPattern(n) == Pattern("intermediate", {n}, FALSE)

\* The merge block entered after the first pass of the loop (the block indented
\* into the loop body).
AfterFirstStageA(n) == "stageB"

\* Where main goes after the n-th pass of the Stage A loop: the next pass, or
\* the merge block once input_files is exhausted.
AfterStageA(n) == IF n = Len(input_files) THEN "stageB" ELSE "stageA"

\* One pass of main's loop "Shuffle each partition": a pipeline of its own.
StageA ==
  /\ pc = "stageA"
  /\ LET patterns == Split(input_files[i + 1])
         input_examples == read_from_tfrecords_files(fs, patterns)
         shuffled == shuffle_records(input_examples)
     IN  /\ output_patterns' = Append(output_patterns, OutputPattern(i))
         /\ \/ \E new \in WriteToTFRecord("intermediate", i, shuffled) :
                 /\ fs' = Written(fs, new)
                 /\ hist' = [Ran(hist, "stageA") EXCEPT
                               !.read = Append(@, <<"stageA", Glob(fs, patterns[1])>>),
                               !.written = @ \cup DOMAIN new,
                               !.shuffled = Append(@, <<"stageA", input_examples, shuffled>>)]
                 /\ i' = i + 1
                 /\ pc' = AfterStageA(i + 1)
                 /\ error' = error
            \/ /\ Raise(StageAFailed)
               /\ hist' = Ran(hist, "stageA")
               /\ UNCHANGED <<fs, i>>
  /\ UNCHANGED <<args, workdir, manifest, input_files, output_examples, pending, j, partials>>

\* A merge that shuffles once more: shuffle_records applied to what was read.
MergeShuffling(pcoll) ==
  [output_examples |-> shuffle_records(pcoll),
   shuffled |-> <<<<"stageB", pcoll, shuffle_records(pcoll)>>>>]

\* The transforms of the Stage B pipeline between its read and 'WriteOutputs':
\* none, the collection read is the collection written and counted.
Merge(pcoll) == [output_examples |-> pcoll, shuffled |-> <<>>]

\* main's "Combine shuffled partitions" block up to the pipeline's run: the
\* construction of the Stage B pipeline, in which an exception leaves the
\* `with` block without running it.
StageB ==
  /\ pc = "stageB"
  /\ IF output_patterns = <<>>
       THEN /\ Raise("ValueError: Flatten requires a pipeline, there are no deferred inputs")
            /\ UNCHANGED <<output_examples, pending, hist>>
     ELSE IF args.output_dataset_config_pbtxt /\ ~args.output_dataset_name
       THEN /\ Raise(NameError)
            /\ UNCHANGED <<output_examples, pending, hist>>
     ELSE /\ output_examples' =
               Merge(read_from_tfrecords_files(fs, output_patterns)).output_examples
          /\ pending' = {"WriteOutputs"} \cup
                        (IF args.output_dataset_config_pbtxt THEN {"WriteToFile"} ELSE {})
          /\ hist' = [Ran(hist, "stageB") EXCEPT
                        !.read = Append(@, <<"stageB",
                                   UNION {Glob(fs, output_patterns[x]) :
                                            x \in DOMAIN output_patterns}>>),
                        !.shuffled = @ \o
                          Merge(read_from_tfrecords_files(fs, output_patterns)).shuffled]
          /\ pc' = "runB"
          /\ error' = error
  /\ UNCHANGED <<args, fs, workdir, manifest, input_files, i, output_patterns, j, partials>>

\* The Stage B execution's 'WriteOutputs'.
WriteOutputs ==
  /\ pc = "runB"
  /\ "WriteOutputs" \in pending
  /\ \E new \in WriteToTFRecord("output", 0, output_examples) :
       /\ fs' = Written(fs, new)
       /\ hist' = [hist EXCEPT !.written = @ \cup DOMAIN new]
  /\ pending' = pending \ {"WriteOutputs"}
  /\ UNCHANGED <<args, workdir, manifest, pc, error, input_files, i, output_patterns,
                 output_examples, j, partials>>

\* The Stage B execution's write_summary_string_to_file(): 'WriteToFile' of the
\* concatenation of the header and the configuration string.
write_summary_string_to_file ==
  /\ pc = "runB"
  /\ "WriteToFile" \in pending
  /\ LET comment_str == COMMENT_HEADER(input_pattern_list, output_pattern_prefix)
         num_examples == CountGlobally(output_examples)
         config_str == MakeConfigStringCaller(output_dataset_name, output_pattern_prefix,
                                              num_examples)
     IN  \E text \in Concat2(comment_str, config_str) : manifest' = {text}
  /\ pending' = pending \ {"WriteToFile"}
  /\ UNCHANGED <<args, fs, workdir, pc, error, input_files, i, output_patterns,
                 output_examples, j, partials, hist>>

\* Main going on to the cleanup without waiting for the Stage B execution's
\* writes (the cleanup loop inside the `with` block).
StageBDoneEarly ==
  /\ pc = "runB"
  /\ pc' = "cleanup"
  /\ UNCHANGED <<args, fs, workdir, manifest, error, input_files, i, output_patterns,
                 output_examples, pending, j, partials, hist>>

\* The Stage B execution ends: all its writes are done.
StageBDone ==
  /\ pc = "runB"
  /\ pending = {}
  /\ pc' = "cleanup"
  /\ UNCHANGED <<args, fs, workdir, manifest, error, input_files, i, output_patterns,
                 output_examples, pending, j, partials, hist>>

\* The Stage B execution fails and main cleans up all the same (the cleanup in
\* a `finally`).
StageBFailThenCleanup ==
  /\ pc = "runB"
  /\ pc' = "cleanup"
  /\ error' = StageBFailed
  /\ UNCHANGED <<args, fs, workdir, manifest, input_files, i, output_patterns,
                 output_examples, pending, j, partials, hist>>

\* The Stage B execution fails: the exception leaves main.
StageBFail ==
  /\ pc = "runB"
  /\ Raise(StageBFailed)
  /\ UNCHANGED <<args, fs, workdir, manifest, input_files, i, output_patterns,
                 output_examples, pending, j, partials, hist>>

\* main's "Cleanup": for pattern in output_patterns: glob.glob(pattern) ...
CleanupGlob ==
  /\ pc = "cleanup"
  /\ partials = {}
  /\ j < Len(output_patterns)
  /\ partials' = Glob(fs, output_patterns[j + 1])
  /\ j' = j + 1
  /\ hist' = Ran(hist, "cleanup")
  /\ UNCHANGED <<args, fs, workdir, manifest, pc, error, input_files, i, output_patterns,
                 output_examples, pending>>

\* ... for partial in the listing: os.remove(partial), which raises when the
\* file is no longer there or may not be removed.
CleanupRemove ==
  /\ pc = "cleanup"
  /\ \E partial \in partials :
       \/ /\ partial \in DOMAIN fs
          /\ fs' = Removed(fs, partial)
          /\ partials' = partials \ {partial}
          /\ hist' = [hist EXCEPT !.deleted = @ \cup {partial}]
          /\ UNCHANGED <<pc, error>>
       \/ /\ partial \notin DOMAIN fs
          /\ Raise(FileNotFoundError)
          /\ UNCHANGED <<fs, partials, hist>>
       \/ /\ partial \in DOMAIN fs
          /\ Raise(PermissionError)
          /\ UNCHANGED <<fs, partials, hist>>
  /\ UNCHANGED <<args, workdir, manifest, input_files, i, output_patterns,
                 output_examples, pending, j>>

\* Another process removes a file the cleanup loop has listed and not yet
\* reached (once in a run).
ExternalRemove ==
  /\ pc = "cleanup"
  /\ hist.external = {}
  /\ \E partial \in partials \cap DOMAIN fs :
       /\ fs' = Removed(fs, partial)
       /\ hist' = [hist EXCEPT !.external = {partial}]
  /\ UNCHANGED <<args, workdir, manifest, pc, error, input_files, i, output_patterns,
                 output_examples, pending, j, partials>>

\* main returns.
MainDone ==
  /\ pc = "cleanup"
  /\ partials = {}
  /\ j = Len(output_patterns)
  /\ pc' = "done"
  /\ UNCHANGED <<args, fs, workdir, manifest, error, input_files, i, output_patterns,
                 output_examples, pending, j, partials, hist>>

Next ==
  \/ parse_cmdline
  \/ pre_partition
  \/ no_pre_partition
  \/ StageA
  \/ StageB
  \/ WriteOutputs
  \/ write_summary_string_to_file
  \/ StageBDone
  \/ StageBFail
  \/ CleanupGlob
  \/ CleanupRemove
  \/ MainDone

Spec == Init /\ [][Next]_vars

\* The program beside another process that removes a file during the cleanup.
NextEnv ==
  \/ Next
  \/ ExternalRemove

SpecEnv == Init /\ [][NextEnv]_vars

-----------------------------------------------------------------------------
\* Properties.

\* The input records of the run, and the records of a set of files.
R == hist.fs0[InputFile]
RecordsIn(files) == BagUnion(files, fs)

CleanStart == StaleIntermediateFile \notin DOMAIN hist.fs0
OutputsWritten == \E f \in hist.written : f.kind = "output"
StageBComplete ==
  /\ "stageB" \in hist.ran
  /\ pending = {}
  /\ OutputsWritten
  /\ args.output_dataset_config_pbtxt => manifest # {}

\* C1: after main completes successfully (from a file system holding no file
\* of an earlier run at the output prefix), the records in the final output
\* shards are exactly the input records, as a multiset, in both modes.
C1_EndToEndMultiset ==
  (pc = "done" /\ CleanStart) => RecordsIn(Glob(fs, FinalPattern)) = R

\* C2: every call of shuffle_records returns its input as a multiset: records
\* of equal content each come out as often as they went in, and the empty
\* collection comes out empty.
C2_ShuffleMultiset ==
  \A x \in DOMAIN hist.shuffled : hist.shuffled[x][3] = hist.shuffled[x][2]

C2_Witness ==
  \E x \in DOMAIN hist.shuffled :
    /\ hist.shuffled[x][2]["a"] = 2
    /\ hist.shuffled[x][3]["a"] = 2

\* C3: once pre_partition has returned, the files it returned hold exactly the
\* input records, each in the file whose index is partition(record, n).
ReturnedFiles == UNION {Glob(fs, input_files[x]) : x \in DOMAIN input_files}
C3_PartitionComplete ==
  (args.pre_partition /\ pc \in {"stageA", "stageB"} /\ i = 0) =>
     /\ RecordsIn(ReturnedFiles) = R
     /\ \A f \in ReturnedFiles : \A r \in Records :
          fs[f][r] > 0 => f.idx = partition(r, args.num_buckets)

C5_CleanupOrdering ==
  [][/\ (\E f \in DOMAIN fs : f.kind = "intermediate" /\ f \notin DOMAIN fs') =>
          (pc = "cleanup" /\ StageBComplete)
     /\ Len(hist'.read) > Len(hist.read) =>
          ("cleanup" \notin hist.ran /\ hist.deleted = {})]_vars

C5_Witness ==
  /\ pc = "done"
  /\ \E f \in hist.deleted : f \in hist.written /\ f.kind = "intermediate"
  /\ Len(hist.read) > 1

\* C6: when the missing dataset name is reported, no execution has run and no
\* file has been written.
C6_NameErrorIsEager ==
  error = NameError => (hist.ran = {} /\ hist.written = {} /\ fs = hist.fs0)

\* C7: when pre_partition is called with the working directory existing, it
\* raises, and then no directory or file has been created or changed and no
\* execution or cleanup has been run.
C7_ExistingWorkdirFatal ==
  (args.pre_partition /\ hist.workdir0 /\ args.num_buckets > 0
     /\ pc \notin {"parse", "prepartition"}) =>
     /\ pc = "failed"
     /\ error = WorkdirError
     /\ fs = hist.fs0
     /\ workdir = hist.workdir0
     /\ manifest = {}
     /\ hist.ran = {} /\ hist.written = {} /\ hist.deleted = {}

C7_Witness ==
  /\ error = WorkdirError
  /\ OldPartitionFile \in DOMAIN fs

\* C8: after a successful run with pre-partitioning, no partition file and no
\* Stage A file is left.
C8_NoStagedArtifacts ==
  (pc = "done" /\ args.pre_partition) =>
     \A f \in DOMAIN fs : f.kind \notin {"partition", "intermediate"}

\* C9: once the summary and the final output shards of a run are written, the
\* summary's num_examples is the number of records in those shards.
C9_ManifestCount ==
  (manifest # {} /\ OutputsWritten) =>
     \A text \in manifest : \E x \in DOMAIN text :
       /\ text[x].block = "trailer"
       /\ text[x].num_examples =
            BagSize(RecordsIn({f \in hist.written : f.kind = "output"}))

C9_Witness ==
  /\ pc = "done"
  /\ \E text \in manifest : \E x \in DOMAIN text :
       text[x].block = "trailer" /\ text[x].num_examples = 2
  /\ BagSize(RecordsIn(Glob(fs, FinalPattern))) = 2

\* C10: the summary is the header block followed by the trailer block.
C10_ManifestLayout ==
  \A text \in manifest :
    /\ Len(text) = 2
    /\ text[1].block = "header"
    /\ text[2].block = "trailer"

\* C11: every record of a partition file is in the bucket that is its 4-byte
\* digest read as a little-endian unsigned integer, modulo num_buckets; the
\* bucket is in [0, num_buckets), the same for every occurrence of the record,
\* and 0 when num_buckets = 1.
LittleEndian(d) == d[1] + 256 * d[2] + 65536 * d[3] + 16777216 * d[4]
C11_BucketAssignment ==
  /\ \A r \in Records, n \in 1..MaxBuckets :
       /\ partition(r, n) = LittleEndian(blake2b(r)) % n
       /\ partition(r, n) \in 0..(n - 1)
       /\ n = 1 => partition(r, n) = 0
  /\ \A f \in hist.written : f.kind = "partition" =>
    /\ f.idx \in 0..(args.num_buckets - 1)
    /\ args.num_buckets = 1 => f.idx = 0
    /\ \A r \in Records :
         fs[f][r] > 0 => f.idx = LittleEndian(blake2b(r)) % args.num_buckets

C11_Witness ==
  /\ args.num_buckets = 2
  /\ \E f, g \in hist.written :
       /\ f.kind = "partition" /\ f.idx = 1 /\ fs[f]["b"] > 0
       /\ g.kind = "partition" /\ g.idx = 0 /\ fs[g]["a"] > 0

\* C12: the summary file exists only once the final output shards are written.
C12_ManifestAfterShards == manifest # {} => OutputsWritten

\* C13: after a failed pre-partition or Stage A execution nothing further has
\* started (no later Stage A pass, no Stage B, no summary, no cleanup); after a
\* failed Stage B execution no cleanup has run and no Stage A file is removed;
\* and the run stays failed.
StageAPasses == {x \in DOMAIN hist.read : hist.read[x][1] = "stageA"}
NothingAfterStageA ==
  /\ "stageB" \notin hist.ran
  /\ "cleanup" \notin hist.ran
  /\ manifest = {}
  /\ ~OutputsWritten
  /\ hist.deleted = {}
C13_FailurePropagation ==
  /\ error = PrePartitionFailed =>
       (pc = "failed" /\ NothingAfterStageA /\ "stageA" \notin hist.ran
          /\ hist.written = {} /\ fs = hist.fs0)
  /\ error = StageAFailed =>
       (pc = "failed" /\ NothingAfterStageA
          /\ Cardinality(StageAPasses) = i /\ Len(output_patterns) = i + 1)
  /\ error = StageBFailed =>
       (pc = "failed" /\ "cleanup" \notin hist.ran /\ hist.deleted = {}
          /\ \A f \in hist.written : f \in DOMAIN fs)

C13_Witness ==
  /\ error = StageBFailed
  /\ pending = {}
  /\ \E f \in hist.written : f.kind = "intermediate"

\* C14: a Stage A pass reads partition files only after the pre-partition
\* execution has completed with every partition written, and the Stage B
\* execution reads only after every Stage A pass (one per input file) has
\* completed.
C14_StageBarriers ==
  \A x \in DOMAIN hist.read :
    /\ (hist.read[x][1] = "stageA" /\ args.pre_partition) =>
         /\ x > 1
         /\ hist.read[1][1] = "prepartition"
         /\ hist.read[x][2] \subseteq {f \in hist.written : f.kind = "partition"}
         /\ \A b \in 0..(args.num_buckets - 1) :
              \E f \in hist.written : f.kind = "partition" /\ f.idx = b
    /\ hist.read[x][1] = "stageB" =>
         /\ x = Len(hist.read)
         /\ Cardinality(StageAPasses) = Len(input_files)
         /\ i = Len(input_files)

C14_Witness ==
  /\ pc = "runB"
  /\ Len(input_files) = 2
  /\ hist.read[Len(hist.read)][1] = "stageB"

\* C15: a file of the cleanup's listing that is gone when os.remove reaches it
\* does not make the cleanup raise.
C15_CleanupBestEffort == error # FileNotFoundError

\* C16: after a run that reached its end, every file written by a Stage A
\* execution is gone, whatever its shard count.
C16_StageDComplete ==
  pc = "done" => \A f \in hist.written : f.kind = "intermediate" => f \notin DOMAIN fs

C16_Witness ==
  /\ pc = "done"
  /\ \E f, g \in hist.written :
       /\ f.kind = "intermediate" /\ f.of = 2
       /\ g.kind = "intermediate" /\ g.idx # f.idx

\* C17: the Stage B execution reads exactly the files the Stage A executions of
\* this run wrote.
C17_StageBReadsOwn ==
  \A x \in DOMAIN hist.read :
    hist.read[x][1] = "stageB" =>
      hist.read[x][2] = {f \in hist.written : f.kind = "intermediate"}

\* C18: the cleanup removes only Stage A files this run wrote, never a file
\* that existed before the run.
C18_CleanupFrame ==
  \A f \in hist.deleted :
    /\ f.kind = "intermediate"
    /\ f \in hist.written
    /\ f \notin DOMAIN hist.fs0

\* C19: with --pre_partition and no working directory or no positive
\* num_buckets, parse_cmdline fails before anything has run or been created;
\* without --pre_partition neither is validated or used: Stage A runs once,
\* over the whole input.
C19_EagerValidation ==
  /\ (args.pre_partition /\ pc # "parse"
        /\ (~args.pre_partition_workdir \/ args.num_buckets <= 0)) =>
       /\ pc = "failed"
       /\ error = IF ~args.pre_partition_workdir THEN NoWorkdirError ELSE NoBucketError
       /\ hist.ran = {} /\ hist.written = {} /\ hist.read = <<>>
       /\ fs = hist.fs0 /\ workdir = hist.workdir0 /\ manifest = {}
  /\ ~args.pre_partition =>
       /\ error \notin {NoWorkdirError, NoBucketError, WorkdirError}
       /\ workdir = hist.workdir0
       /\ \A f \in hist.written : f.kind # "partition"
       /\ pc \in {"stageB", "runB", "cleanup", "done"} =>
            /\ input_files = <<InputPattern>>
            /\ Len(hist.shuffled) = 1
            /\ hist.shuffled[1][2] = R
            /\ hist.read[1] = <<"stageA", {InputFile}>>
            /\ Cardinality(StageAPasses) = 1

C19_Witness ==
  /\ error = NoBucketError
  /\ args.pre_partition_workdir
  /\ args.num_buckets = 0

====
